---- MODULE Spec2Model ----
(***************************************************************************)
(* A model of the conversation segmentation code of the repository:        *)
(*   - Parser (src/bubblescript/app.js): parseSegments, parseByLabels,     *)
(*     parseByAlternatingTurns, parseByHeuristicSplit, and the handlers    *)
(*     that call them (handleInput, deleteSelectedBubbles);                *)
(*   - SpeakerClassifier (src/unnamed/part_000): classifyTurn,             *)
(*     classifyConversation, validateSequence.                             *)
(* A text is a sequence of one-character strings, so that trimming,        *)
(* splitting and the regular expressions are computed character by         *)
(* character, as the JavaScript does.                                      *)
(***************************************************************************)
EXTENDS Integers, Sequences, FiniteSets, TLC

VARIABLES
    input,          \* elements.input.value: the text of the source box
    segments,       \* the segments of the last parse/render (the bubbles shown)
    renderTimeout,  \* State.renderTimeout: "null" or "armed"
    pendingRenders, \* the process callbacks of handleInput waiting in the timer queue
    isUpdatingFromPreview, \* State.isUpdatingFromPreview
    releaseTimers,  \* the callbacks of updateSourceFromPreview waiting in the timer queue
    previewCalls,   \* the calls of updateSourceFromPreview made so far
    turnText,       \* the text argument of a call of classifyTurn
    turnPrevious,   \* its previousSpeaker argument: "null", "ai", "user", "uncertain"
    result,         \* the object the call returned (NoResult before it returns)
    convTurns,      \* the turns argument of classifyConversation / validateSequence
    convResults,    \* the results array of that call
    convPrevious,   \* previousSpeaker of classifyConversation
    convPc,         \* where the call is: "idle", "classify", "validate", "done"
    convI,          \* the loop index i of validateSequence (1-based)
    conversationInput, \* the value of the Copilot converter's text area
    messages        \* the messages of its last conversion (NoMessages before one)

editorVars == <<input, segments, renderTimeout, pendingRenders>>

previewVars == <<isUpdatingFromPreview, releaseTimers, previewCalls>>

turnVars == <<turnText, turnPrevious, result>>

convVars == <<convTurns, convResults, convPrevious, convPc, convI>>

copilotVars == <<conversationInput, messages>>

vars == <<editorVars, previewVars, turnVars, convVars, copilotVars>>

(***************************************************************************)
(* Bounds of the model and constants of the program.                       *)
(***************************************************************************)
MaxLines == 3

MaxFragments == 3

MaxTurns == 4

LabelCap == 100

(***************************************************************************)
(* Characters and the JavaScript string primitives the code relies on.     *)
(***************************************************************************)
Chars(s) == [i \in 1..Len(s) |-> SubSeq(s, i, i)]

Repeat(c, n) == [i \in 1..n |-> c]

UpperChars == Chars("ABCDEFGHIJKLMNOPQRSTUVWXYZ")

LowerChars == Chars("abcdefghijklmnopqrstuvwxyz")

DigitChars == Chars("0123456789")

LowerMap == [c \in {UpperChars[i] : i \in 1..26} |->
                LowerChars[CHOOSE i \in 1..26 : UpperChars[i] = c]]

UpperMap == [c \in {LowerChars[i] : i \in 1..26} |->
                UpperChars[CHOOSE i \in 1..26 : LowerChars[i] = c]]

\* String.prototype.toLowerCase, one character
Lower(c) == IF c \in DOMAIN LowerMap THEN LowerMap[c] ELSE c

\* String.prototype.toUpperCase, one character
Upper(c) == IF c \in DOMAIN UpperMap THEN UpperMap[c] ELSE c

ToLowerCase(s) == [i \in 1..Len(s) |-> Lower(s[i])]

\* the regular expression class \s, on the characters of the model
IsSpace(c) == c \in {" ", "\n", "\t"}

\* the regular expression class \w
WordChars == DOMAIN LowerMap \cup DOMAIN UpperMap
                \cup {DigitChars[i] : i \in 1..10} \cup {"_"}

IsWordChar(c) == c \in WordChars

\* the first index >= i of s that holds no whitespace (Len(s)+1 if none)
SkipSpaces(s, i) ==
    IF \A j \in i..Len(s) : IsSpace(s[j]) THEN (IF i > Len(s) THEN i ELSE Len(s) + 1)
    ELSE CHOOSE j \in i..Len(s) :
            ~IsSpace(s[j]) /\ \A k \in i..(j - 1) : IsSpace(s[k])

\* the last index <= i of s that holds no whitespace (0 if none)
SkipSpacesBack(s, i) ==
    IF \A j \in 1..i : IsSpace(s[j]) THEN 0
    ELSE CHOOSE j \in 1..i :
            ~IsSpace(s[j]) /\ \A k \in (j + 1)..i : IsSpace(s[k])

\* String.prototype.trim: from the first to the last character that is no
\* whitespace (the empty text when there is none)
JsTrim(s) == SubSeq(s, SkipSpaces(s, 1), SkipSpacesBack(s, Len(s)))

\* the truthiness of  content.trim(),  content  forgotten to be trimmed
HasContentNoTrim(s) == Len(s) > 0

\* the truthiness of  content.trim()  (a non-empty string is truthy)
HasContent(s) == Len(JsTrim(s)) > 0

\* the first index >= i of s that holds c (0 if none)
IndexOfFrom(s, c, i) ==
    IF \A j \in i..Len(s) : s[j] # c THEN 0
    ELSE CHOOSE j \in i..Len(s) : s[j] = c /\ \A k \in i..(j - 1) : s[k] # c

\* 1 + s.indexOf(c): 0 when c does not occur
IndexOf(s, c) == IndexOfFrom(s, c, 1)

RECURSIVE SplitLinesFrom(_, _)
SplitLinesFrom(s, start) ==
    LET k == IndexOfFrom(s, "\n", start)
    IN  IF k = 0 THEN << SubSeq(s, start, Len(s)) >>
        ELSE << SubSeq(s, start, k - 1) >> \o SplitLinesFrom(s, k + 1)

\* text.split('\n')
SplitLines(s) == SplitLinesFrom(s, 1)

\* s.startsWith(w, i-1), case-sensitive
MatchAt(s, i, w) ==
    /\ i >= 1
    /\ i + Len(w) - 1 <= Len(s)
    /\ \A k \in 1..Len(w) : s[i + k - 1] = w[k]

\* the same under the regular expression flag i
MatchAtCI(s, i, w) ==
    /\ i >= 1
    /\ i + Len(w) - 1 <= Len(s)
    /\ \A k \in 1..Len(w) : Lower(s[i + k - 1]) = Lower(w[k])

\* the regular expression assertion \b, between s[i-1] and s[i]
WordBoundary(s, i) ==
    LET before == i - 1 >= 1 /\ i - 1 <= Len(s) /\ IsWordChar(s[i - 1])
        after  == i >= 1 /\ i <= Len(s) /\ IsWordChar(s[i])
    IN  before # after

\* /\b(w1|w2|...)\b/i.test(s), words a sequence of literal alternatives
HasWordCI(s, words) ==
    \E k \in 1..Len(words) : \E i \in 1..Len(s) :
        /\ MatchAtCI(s, i, words[k])
        /\ WordBoundary(s, i)
        /\ WordBoundary(s, i + Len(words[k]))

(***************************************************************************)
(* CONFIG and the speaker regular expressions.                             *)
(***************************************************************************)
USER_KEYWORDS ==
    << Chars("user"), Chars("you"), Chars("me"), Chars("human"), Chars("prompter") >>

AI_KEYWORDS ==
    << Chars("ai"), Chars("chatgpt"), Chars("claude"), Chars("gemini"),
       Chars("grok"), Chars("llama"), Chars("copilot"), Chars("assistant"),
       Chars("model"), Chars("bot") >>

\* userKeywordRegex.test(lowerSpeaker)
userKeywordRegex(s) == HasWordCI(s, USER_KEYWORDS)

\* aiKeywordRegex.test(lowerSpeaker)
aiKeywordRegex(s) == HasWordCI(s, AI_KEYWORDS)

NoMatch == [matched |-> FALSE, whole |-> <<>>, name |-> <<>>]

\* /^([^:\n]{1,100}):\s+/ on a line whose first colon is at k (0: no colon):
\* whole is match[0], name is match[1]
PermissiveAt(line, k) ==
    IF k >= 2 /\ k - 1 <= LabelCap /\ k < Len(line) /\ IsSpace(line[k + 1])
    THEN [matched |-> TRUE,
          whole   |-> SubSeq(line, 1, SkipSpaces(line, k + 1) - 1),
          name    |-> SubSeq(line, 1, k - 1)]
    ELSE NoMatch

\* the same without the cap of 100 characters on the name
PermissiveNoCapAt(line, k) ==
    IF k >= 2 /\ k < Len(line) /\ IsSpace(line[k + 1])
    THEN [matched |-> TRUE,
          whole   |-> SubSeq(line, 1, SkipSpaces(line, k + 1) - 1),
          name    |-> SubSeq(line, 1, k - 1)]
    ELSE NoMatch

\* a variant of permissiveSpeakerRegex: the label is not capped at 100 characters
permissiveNoCap(line) == PermissiveNoCapAt(line, IndexOf(line, ":"))

\* line.match(permissiveSpeakerRegex)
permissiveSpeakerRegex(line) == PermissiveAt(line, IndexOf(line, ":"))

AllKeywords == USER_KEYWORDS \o AI_KEYWORDS

\* the first alternative of the keyword group that matches at q (0 if none)
KeywordAt(line, q) ==
    LET hits == {k \in 1..Len(AllKeywords) : MatchAtCI(line, q, AllKeywords[k])}
    IN  IF hits = {} THEN 0 ELSE CHOOSE k \in hits : \A j \in hits : k <= j

\* the end (exclusive) of the optional group (\*\*|:|\s+said)? tried at r
SuffixEnd(line, r) ==
    IF MatchAt(line, r, Chars("**")) THEN r + 2
    ELSE IF MatchAt(line, r, Chars(":")) THEN r + 1
    ELSE LET r2 == SkipSpaces(line, r)
         IN  IF r2 > r /\ MatchAtCI(line, r2, Chars("said")) THEN r2 + 4 ELSE r

\* the match whose keyword group is alternative k (0: none) and starts at q
KeywordMatch(line, q, k) ==
    IF k = 0 THEN NoMatch
    ELSE [matched |-> TRUE,
          whole   |-> SubSeq(line, 1, SuffixEnd(line, q + Len(AllKeywords[k])) - 1),
          name    |-> SubSeq(line, q, q + Len(AllKeywords[k]) - 1)]

\* the keyword regex with its groups 1 and 2 having consumed the characters before q
KeywordAfterSpaces(line, q) == KeywordMatch(line, q, KeywordAt(line, q))

\* the keyword regex with its first group having consumed the characters before p
KeywordFrom(line, p) == KeywordAfterSpaces(line, SkipSpaces(line, p))

HasKeywordFrom(line, p) == KeywordAt(line, SkipSpaces(line, p)) # 0

\* where the first group (\*\*|##\s|)? ends (exclusive): its alternatives are
\* tried in order, each kept only if the keyword group matches after it
KeywordStart(line) ==
    IF MatchAt(line, 1, Chars("**")) /\ HasKeywordFrom(line, 3) THEN 3
    ELSE IF MatchAt(line, 1, Chars("##")) /\ Len(line) >= 3 /\ IsSpace(line[3])
            /\ HasKeywordFrom(line, 4) THEN 4
    ELSE 1

\* line.match(/^(\*\*|##\s|)?(\s*)(user|you|...|bot)(\*\*|:|\s+said)?/i):
\* whole is match[0], name is match[3]
keywordSpeakerRegex(line) == KeywordFrom(line, KeywordStart(line))

IsUserKeyword(name) ==
    \E k \in 1..Len(USER_KEYWORDS) : ToLowerCase(name) = USER_KEYWORDS[k]

(***************************************************************************)
(* Parser.parseByLabels                                                    *)
(***************************************************************************)
NoLabel == [speakerName |-> <<>>, isUser |-> FALSE, whole |-> <<>>]

\* a variant of GenericLabel: the label is the primary party unless its name
\* holds a counterpart keyword
GenericLabelDefaultUser(m1) ==
    [speakerName |-> JsTrim(m1.name),
     isUser      |-> ~aiKeywordRegex(ToLowerCase(JsTrim(m1.name))),
     whole       |-> m1.whole]

\* the label of a match m1 of permissiveSpeakerRegex
GenericLabel(m1) ==
    [speakerName |-> JsTrim(m1.name),
     isUser      |-> userKeywordRegex(ToLowerCase(JsTrim(m1.name))),
     whole       |-> m1.whole]

\* the label of a match m2 of keywordSpeakerRegex
KeywordLabel(m2) ==
    IF m2.matched /\ Len(m2.name) > 0
    THEN [speakerName |-> m2.name,
          isUser      |-> IsUserKeyword(m2.name),
          whole       |-> m2.whole]
    ELSE NoLabel

DetectLabelWith(line, m1) ==
    IF m1.matched /\ Len(m1.name) > 0
    THEN GenericLabel(m1)
    ELSE KeywordLabel(keywordSpeakerRegex(line))

\* the label detection of one line: the generic colon label first, and the
\* keyword label only when the generic pattern did not match
DetectLabel(line) == DetectLabelWith(line, permissiveSpeakerRegex(line))

\* let currentSegment = { type: 'unknown', speaker: 'Unknown', content: '' }
InitialSegment ==
    [type |-> "unknown", speaker |-> Chars("Unknown"), content |-> <<>>,
     originalPrefix |-> <<>>]

\* one iteration of lines.forEach: st is [segs, cur], d the label of the line
ScanStepWith(st, line, d) ==
    IF Len(d.speakerName) > 0
    THEN [segs |-> IF HasContent(st.cur.content)
                   THEN Append(st.segs, st.cur) ELSE st.segs,
          cur  |-> [type    |-> IF d.isUser THEN "user" ELSE "ai",
                    speaker |-> << Upper(d.speakerName[1]) >> \o Tail(d.speakerName),
                    content |-> JsTrim(SubSeq(line, Len(d.whole) + 1, Len(line)))
                                    \o << "\n" >>,
                    originalPrefix |-> d.whole]]
    ELSE [segs |-> st.segs,
          cur  |-> [st.cur EXCEPT !.content = @ \o line \o << "\n" >>]]

ScanStep(st, line) == ScanStepWith(st, line, DetectLabel(line))

RECURSIVE ScanLines(_, _)
\* the state of the scan after the first n lines
ScanLines(lines, n) ==
    IF n = 0 THEN [segs |-> <<>>, cur |-> InitialSegment]
    ELSE ScanStep(ScanLines(lines, n - 1), lines[n])

\* lines.forEach over all the lines
ScanAll(lines) == ScanLines(lines, Len(lines))

\* a variant of FinalFlush: the buffer is not flushed at the end of the input
NoFinalFlush(st) == st.segs

\* if (currentSegment.content.trim()) segments.push(currentSegment)
FinalFlush(st) ==
    IF HasContent(st.cur.content) THEN Append(st.segs, st.cur) ELSE st.segs

\* a variant of PostPass: the kind of the first segment is not inferred
PostPassOff(segs) == segs

\* a variant of PostPass: the first segment takes the kind of the second
PostPassSameKind(segs) ==
    IF Len(segs) > 1 /\ segs[1].type = "unknown"
    THEN IF segs[2].type = "ai"
         THEN [segs EXCEPT ![1].type = "ai", ![1].speaker = Chars("Assistant")]
         ELSE IF segs[2].type = "user"
              THEN [segs EXCEPT ![1].type = "user", ![1].speaker = Chars("User")]
              ELSE segs
    ELSE segs

\* the inference of the kind of a first unknown segment from the second
PostPass(segs) ==
    IF Len(segs) > 1 /\ segs[1].type = "unknown"
    THEN IF segs[2].type = "ai"
         THEN [segs EXCEPT ![1].type = "user", ![1].speaker = Chars("User")]
         ELSE IF segs[2].type = "user"
              THEN [segs EXCEPT ![1].type = "ai", ![1].speaker = Chars("Assistant")]
              ELSE segs
    ELSE segs

parseByLabels(text) == PostPass(FinalFlush(ScanAll(SplitLines(text))))

(***************************************************************************)
(* The structural splitters.                                               *)
(***************************************************************************)
\* the last index in lo..hi of s that holds a newline (0 if none)
LastNewline(s, lo, hi) ==
    IF \A j \in lo..hi : s[j] # "\n" THEN 0
    ELSE CHOOSE j \in lo..hi : s[j] = "\n" /\ \A k \in (j + 1)..hi : s[k] # "\n"

RECURSIVE SplitAtNewlines(_, _, _)
\* a variant of SplitBlocksFrom: the text is split at every newline
SplitAtNewlines(s, start, i) ==
    LET n == IndexOfFrom(s, "\n", i)
    IN  IF n = 0 THEN << SubSeq(s, start, Len(s)) >>
        ELSE << SubSeq(s, start, n - 1) >> \o SplitAtNewlines(s, n + 1, n + 1)

RECURSIVE SplitBlocksFrom(_, _, _)
\* the split on /\n\s*\n+/: the block started at start, the search being at i.
\* A match starts at a newline i and runs to the last newline of the whitespace
\* that follows it.
SplitBlocksFrom(s, start, i) ==
    LET n == IndexOfFrom(s, "\n", i)
    IN  IF n = 0 THEN << SubSeq(s, start, Len(s)) >>
        ELSE LET l == LastNewline(s, n + 1, SkipSpaces(s, n + 1) - 1)
             IN  IF l > 0
                 THEN << SubSeq(s, start, n - 1) >> \o SplitBlocksFrom(s, l + 1, l + 1)
                 ELSE SplitBlocksFrom(s, start, n + 1)

\* text.trim().split(/\n\s*\n+/)
SplitBlocks(text) == SplitBlocksFrom(JsTrim(text), 1, 1)

StructuralSegment(isUserTurn, content) ==
    [type    |-> IF isUserTurn THEN "user" ELSE "ai",
     speaker |-> IF isUserTurn THEN Chars("User") ELSE Chars("Assistant"),
     content |-> content,
     originalPrefix |-> <<>>]

RECURSIVE AlternateNoFlip(_, _, _)
\* a variant of AlternateFrom: isUserTurn is never flipped
AlternateNoFlip(blocks, i, isUserTurn) ==
    IF i > Len(blocks) THEN <<>>
    ELSE LET content == JsTrim(blocks[i])
         IN  IF Len(content) > 0
             THEN << StructuralSegment(isUserTurn, content) >>
                      \o AlternateNoFlip(blocks, i + 1, isUserTurn)
             ELSE AlternateNoFlip(blocks, i + 1, isUserTurn)

RECURSIVE AlternateFrom(_, _, _)
\* blocks.forEach of parseByAlternatingTurns, from block i on
AlternateFrom(blocks, i, isUserTurn) ==
    IF i > Len(blocks) THEN <<>>
    ELSE LET content == JsTrim(blocks[i])
         IN  IF Len(content) > 0
             THEN << StructuralSegment(isUserTurn, content) >>
                      \o AlternateFrom(blocks, i + 1, ~isUserTurn)
             ELSE AlternateFrom(blocks, i + 1, isUserTurn)

\* parseByAlternatingTurns on the blocks of the text
AlternateAll(blocks) ==
    IF Len(blocks) < 2 THEN <<>> ELSE AlternateFrom(blocks, 1, TRUE)

parseByAlternatingTurns(text) == AlternateAll(SplitBlocks(text))

HeuristicNonEmpty(seg) == Len(seg.content) > 0

\* parseByHeuristicSplit on the blocks of the text
HeuristicAll(blocks) ==
    IF Len(blocks) < 2 THEN <<>>
    ELSE SelectSeq([i \in 1..Len(blocks) |->
                      StructuralSegment((i - 1) % 2 = 0, JsTrim(blocks[i]))],
                   HeuristicNonEmpty)

parseByHeuristicSplit(text) == HeuristicAll(SplitBlocks(text))

(***************************************************************************)
(* Parser.parseSegments                                                    *)
(***************************************************************************)
hasKnownLabels(segs) ==
    \E i \in 1..Len(segs) : segs[i].type = "user" \/ segs[i].type = "ai"

KeepWithContent(seg) == HasContent(seg.content)

\* a variant of SecondStage: the blank-line split replaces the label result
\* whenever it has more than one block
SecondStageAlwaysAlternate(byLabels, alternateSegments) ==
    IF Len(alternateSegments) > 1 THEN alternateSegments ELSE byLabels

\* the segments after the first fallback
SecondStage(byLabels, alternateSegments) ==
    IF (Len(byLabels) < 2 \/ ~hasKnownLabels(byLabels)) /\ Len(alternateSegments) > 1
    THEN alternateSegments ELSE byLabels

\* the segments after the second fallback
ThirdStage(segs, heuristicSegments) ==
    IF Len(segs) < 2 /\ Len(heuristicSegments) > 1 THEN heuristicSegments ELSE segs

parseSegments(text) ==
    SelectSeq(ThirdStage(SecondStage(parseByLabels(text), parseByAlternatingTurns(text)),
                         parseByHeuristicSplit(text)),
              KeepWithContent)

\* newText += (segment.originalPrefix || '') + segment.content.trim() + '\n\n'
\* for every index not in indicesToDelete (0-based in the code, 1-based here)
RECURSIVE ReconstructFrom(_, _, _)
ReconstructFrom(segs, i, indicesToDelete) ==
    IF i > Len(segs) THEN <<>>
    ELSE (IF i \in indicesToDelete THEN <<>>
          ELSE segs[i].originalPrefix \o JsTrim(segs[i].content) \o << "\n", "\n" >>)
         \o ReconstructFrom(segs, i + 1, indicesToDelete)

\* the text deleteSelectedBubbles writes back: newText.trim()
Reconstruct(segs, indicesToDelete) == JsTrim(ReconstructFrom(segs, 1, indicesToDelete))

(***************************************************************************)
(* SpeakerClassifier.classifyTurn: the feature catalogue.                  *)
(***************************************************************************)
\* the backquote character, which a string of the model cannot hold
Backquote == "backquote"

\* the marker of a fenced code block
Fence == << Backquote, Backquote, Backquote >>

\* t.includes(w)
Includes(t, w) == \E i \in 1..Len(t) : MatchAt(t, i, w)

\* the positions where ^ matches under the flag m
IsLineStart(t, i) == i = 1 \/ (i > 1 /\ i <= Len(t) + 1 /\ t[i - 1] = "\n")

\* /^(w1|w2|...)$/i.test(t)
IsOneOfCI(t, words) ==
    \E k \in 1..Len(words) : Len(t) = Len(words[k]) /\ MatchAtCI(t, 1, words[k])

\* /^(w1|w2|...)\b/i.test(t)
StartsWithWordCI(t, words) ==
    \E k \in 1..Len(words) :
        MatchAtCI(t, 1, words[k]) /\ WordBoundary(t, 1 + Len(words[k]))

\* /^(w1|w2|...):/i.test(t)
StartsWithMarkerCI(t, words) ==
    \E k \in 1..Len(words) : MatchAtCI(t, 1, words[k] \o << ":" >>)

AckWords ==
    << Chars("ok"), Chars("okay"), Chars("yes"), Chars("yeah"), Chars("no"),
       Chars("nope"), Chars("sure"), Chars("thank"), Chars("thanks"), Chars("thx") >>

AckMaxLen == 15

\* the edge case that returns at once
IsBareAcknowledgement(t) == Len(t) < AckMaxLen /\ IsOneOfCI(t, AckWords)

\* /^#{1,3}\s/m.test(t)
HasMarkdownHeading(t) ==
    \E i \in 1..Len(t) : \E k \in 1..3 :
        /\ IsLineStart(t, i)
        /\ i + k <= Len(t)
        /\ \A j \in i..(i + k - 1) : t[j] = "#"
        /\ IsSpace(t[i + k])

LongTextMin == 500

ShortTextMax == 80

RECURSIVE SplitParagraphsFrom(_, _, _)
\* the split on /\n\n+/: a match is a maximal run of two or more newlines
SplitParagraphsFrom(t, start, i) ==
    LET n == IndexOfFrom(t, "\n", i)
    IN  IF n = 0 THEN << SubSeq(t, start, Len(t)) >>
        ELSE IF n < Len(t) /\ t[n + 1] = "\n"
             THEN LET rest == {j \in n..Len(t) : t[j] # "\n"}
                      e == IF rest = {} THEN Len(t) + 1
                           ELSE CHOOSE j \in rest : \A k \in rest : j <= k
                  IN  << SubSeq(t, start, n - 1) >> \o SplitParagraphsFrom(t, e, e)
             ELSE SplitParagraphsFrom(t, start, n + 1)

\* t.split(/\n\n+/).filter(p => p.trim().length > 0).length
ParagraphCount(t) ==
    LET parts == SplitParagraphsFrom(t, 1, 1)
    IN  Cardinality({k \in 1..Len(parts) : HasContent(parts[k])})

\* /\?$/.test(t)
EndsWithQuestion(t) == Len(t) > 0 /\ t[Len(t)] = "?"

PoliteWords ==
    << Chars("please"), Chars("could you"), Chars("can you"), Chars("would you"),
       Chars("will you"), Chars("may I") >>

PresentationWords ==
    << Chars("here is"), Chars("here are"), Chars("here's a"), Chars("here's an") >>

OfferWords == << Chars("I'll"), Chars("I will"), Chars("let me"), Chars("I can") >>

CasualWords ==
    << Chars("yeah"), Chars("nah"), Chars("gonna"), Chars("wanna"), Chars("kinda"),
       Chars("sorta"), Chars("dunno") >>

FormalWords ==
    << Chars("additionally"), Chars("furthermore"), Chars("therefore"),
       Chars("however"), Chars("moreover"), Chars("consequently") >>

MetaWords ==
    << Chars("as mentioned"), Chars("as I said"), Chars("as noted"),
       Chars("as discussed") >>

ApologyWords ==
    << Chars("sorry"), Chars("apologies"), Chars("apologize"), Chars("my mistake") >>

ImperativeWords ==
    << Chars("make"), Chars("create"), Chars("write"), Chars("fix"), Chars("explain"),
       Chars("generate"), Chars("show"), Chars("give me"), Chars("help"),
       Chars("build"), Chars("design") >>

ExplanationWords ==
    << Chars("this"), Chars("the"), Chars("here"), Chars("will"), Chars("should"),
       Chars("can") >>

GratitudeWords ==
    << Chars("thanks"), Chars("thank you"), Chars("thx"), Chars("appreciate") >>

CodeKeywords ==
    << Chars("function"), Chars("const"), Chars("let"), Chars("var"), Chars("class") >>

\* /function\s+\w+|const\s+\w+|let\s+\w+|var\s+\w+|<\w+[^>]*>|class\s+\w+/.test(t)
HasCode(t) ==
    \/ \E k \in 1..Len(CodeKeywords) : \E i \in 1..Len(t) :
          /\ MatchAt(t, i, CodeKeywords[k])
          /\ LET a == i + Len(CodeKeywords[k])
                 b == SkipSpaces(t, a)
             IN  b > a /\ b <= Len(t) /\ IsWordChar(t[b])
    \/ \E i \in 1..Len(t) :
          /\ t[i] = "<"
          /\ i < Len(t) /\ IsWordChar(t[i + 1])
          /\ \E j \in (i + 2)..Len(t) : t[j] = ">"

ExplainedCodeMin == 100

ListContentMin == 20

\* .{20,} at q: twenty characters that are no line terminators
HasListContent(t, q) ==
    /\ q + ListContentMin - 1 <= Len(t)
    /\ \A j \in q..(q + ListContentMin - 1) : t[j] # "\n"

IsDigit(c) == c \in {DigitChars[i] : i \in 1..10}

\* /^\d+\.\s.{20,}/m.test(t) || /^[-*]\s.{20,}/m.test(t)
HasDetailedList(t) ==
    \E i \in 1..Len(t) :
        /\ IsLineStart(t, i)
        /\ \/ \E d \in i..Len(t) :
                 /\ \A j \in i..d : IsDigit(t[j])
                 /\ d + 2 <= Len(t)
                 /\ t[d + 1] = "."
                 /\ IsSpace(t[d + 2])
                 /\ HasListContent(t, d + 3)
           \/ /\ t[i] \in {"-", "*"}
              /\ i + 1 <= Len(t)
              /\ IsSpace(t[i + 1])
              /\ HasListContent(t, i + 2)

\* the character class of the emoji test as the source has it: /[pEmoji]/u
EmojiClass == {"p", "E", "m", "o", "j", "i"}

HasEmoji(t) == \E i \in 1..Len(t) : t[i] \in EmojiClass

CapsMinLen == 10

\* capsRatio > 0.3 && t.length > 10, the ratio compared without division
HasCapsIntensity(t) ==
    LET caps == Cardinality({i \in 1..Len(t) : t[i] \in DOMAIN LowerMap})
    IN  10 * caps > 3 * Len(t) /\ Len(t) > CapsMinLen

UserMarkers == << Chars("user"), Chars("human"), Chars("me") >>

AIMarkers ==
    << Chars("assistant"), Chars("ai"), Chars("claude"), Chars("gpt"), Chars("bot") >>

\* whether the feature fires on the trimmed text t
Fires(name, t) ==
    CASE name = "codeBlock"          -> Includes(t, Fence)
      [] name = "markdownHeading"    -> HasMarkdownHeading(t)
      [] name = "longText"           -> Len(t) > LongTextMin
      [] name = "shortText"          -> ~(Len(t) > LongTextMin) /\ Len(t) < ShortTextMax
      [] name = "multiParagraph"     -> ParagraphCount(t) > 2
      [] name = "endsWithQuestion"   -> EndsWithQuestion(t)
      [] name = "politeRequest"      -> HasWordCI(t, PoliteWords)
      [] name = "presentationPhrase" -> HasWordCI(t, PresentationWords)
      [] name = "offerHelp"          -> HasWordCI(t, OfferWords)
      [] name = "casualSpeech"       -> HasWordCI(t, CasualWords)
      [] name = "formalConnectors"   -> HasWordCI(t, FormalWords)
      [] name = "metaReference"      -> HasWordCI(t, MetaWords)
      [] name = "apologetic"         -> HasWordCI(t, ApologyWords)
      [] name = "imperativeCommand"  -> StartsWithWordCI(t, ImperativeWords)
      [] name = "explainedCode"      -> HasCode(t) /\ HasWordCI(t, ExplanationWords)
                                          /\ Len(t) > ExplainedCodeMin
      [] name = "detailedList"       -> HasDetailedList(t)
      [] name = "gratitude"          -> HasWordCI(t, GratitudeWords)
      [] name = "hasEmoji"           -> HasEmoji(t)
      [] name = "capsIntensity"      -> HasCapsIntensity(t)
      [] name = "explicitUserMarker" -> StartsWithMarkerCI(t, UserMarkers)
      [] name = "explicitAIMarker"   -> StartsWithMarkerCI(t, AIMarkers)

\* the features in the order of the code, each with the score it adds to
Catalogue ==
    << [name |-> "codeBlock",          target |-> "ai",   points |-> 4],
       [name |-> "markdownHeading",    target |-> "ai",   points |-> 2],
       [name |-> "longText",           target |-> "ai",   points |-> 3],
       [name |-> "shortText",          target |-> "user", points |-> 2],
       [name |-> "multiParagraph",     target |-> "ai",   points |-> 2],
       [name |-> "endsWithQuestion",   target |-> "user", points |-> 3],
       [name |-> "politeRequest",      target |-> "user", points |-> 3],
       [name |-> "presentationPhrase", target |-> "ai",   points |-> 3],
       [name |-> "offerHelp",          target |-> "ai",   points |-> 2],
       [name |-> "casualSpeech",       target |-> "user", points |-> 2],
       [name |-> "formalConnectors",   target |-> "ai",   points |-> 2],
       [name |-> "metaReference",      target |-> "ai",   points |-> 2],
       [name |-> "apologetic",         target |-> "ai",   points |-> 2],
       [name |-> "imperativeCommand",  target |-> "user", points |-> 3],
       [name |-> "explainedCode",      target |-> "ai",   points |-> 2],
       [name |-> "detailedList",       target |-> "ai",   points |-> 2],
       [name |-> "gratitude",          target |-> "user", points |-> 2],
       [name |-> "hasEmoji",           target |-> "user", points |-> 2],
       [name |-> "capsIntensity",      target |-> "user", points |-> 2],
       [name |-> "explicitUserMarker", target |-> "user", points |-> 10],
       [name |-> "explicitAIMarker",   target |-> "ai",   points |-> 10] >>

\* the catalogue entries that fire on t
Fired(t) == {k \in 1..Len(Catalogue) : Fires(Catalogue[k].name, t)}

RECURSIVE SumPointsAnyTarget(_, _, _)
\* a variant of SumPoints: a fired entry adds its points to both scores
SumPointsAnyTarget(fired, target, n) ==
    IF n = 0 THEN 0
    ELSE SumPointsAnyTarget(fired, target, n - 1)
           + (IF n \in fired THEN Catalogue[n].points ELSE 0)

RECURSIVE SumPoints(_, _, _)
\* the points the fired entries 1..n add to the score of target
SumPoints(fired, target, n) ==
    IF n = 0 THEN 0
    ELSE SumPoints(fired, target, n - 1)
           + (IF n \in fired /\ Catalogue[n].target = target
              THEN Catalogue[n].points ELSE 0)

\* a variant of ContextBonus: the bonus goes to the party of the previous turn
ContextBonusSwapped(previousSpeaker) ==
    IF previousSpeaker = "ai" THEN "followsUser"
    ELSE IF previousSpeaker = "user" THEN "followsAI" ELSE "none"

\* features.contextBonus
ContextBonus(previousSpeaker) ==
    IF previousSpeaker = "ai" THEN "followsAI"
    ELSE IF previousSpeaker = "user" THEN "followsUser" ELSE "none"

Abs(n) == IF n < 0 THEN -n ELSE n

MinOf(a, b) == IF a < b THEN a ELSE b

DiffAi == 4

DiffUser == -3

\* a variant of Decide: the two thresholds are symmetric (3 on both sides)
DecideSymmetric(diff) ==
    IF diff >= 3 THEN "ai" ELSE IF diff <= DiffUser THEN "user" ELSE "uncertain"

\* the decision on diff = scoreAI - scoreUser
Decide(diff) ==
    IF diff >= DiffAi THEN "ai" ELSE IF diff <= DiffUser THEN "user" ELSE "uncertain"

\* a variant of Confidence: the confidence of a decided turn is not capped
ConfidenceNoCap(diff) ==
    IF Decide(diff) = "uncertain" THEN 50 ELSE 70 + 5 * Abs(diff)

\* Math.round(confidence * 100), confidence as the code computes it
Confidence(diff) ==
    IF Decide(diff) = "uncertain" THEN 50 ELSE MinOf(95, 70 + 5 * Abs(diff))

\* classifyTurn(text, previousSpeaker); previousSpeaker is "null", "ai", "user"
\* or "uncertain"; confidence is in hundredths; features maps each fired feature
\* to the points it recorded
classifyTurn(text, previousSpeaker) ==
    LET t == JsTrim(text)
    IN  IF IsBareAcknowledgement(t)
        THEN [speaker |-> "uncertain", confidence |-> 50,
              scores |-> [ai |-> 0, user |-> 0],
              features |-> << >>, contextBonus |-> "none", correctedBy |-> "none"]
        ELSE LET fired == Fired(t)
                 bonus == ContextBonus(previousSpeaker)
                 scoreAI == SumPoints(fired, "ai", Len(Catalogue))
                              + (IF bonus = "followsUser" THEN 1 ELSE 0)
                 scoreUser == SumPoints(fired, "user", Len(Catalogue))
                              + (IF bonus = "followsAI" THEN 1 ELSE 0)
                 diff == scoreAI - scoreUser
             IN  [speaker |-> Decide(diff), confidence |-> Confidence(diff),
                  scores |-> [ai |-> scoreAI, user |-> scoreUser],
                  features |-> [n \in {Catalogue[k].name : k \in fired} |->
                                  Catalogue[CHOOSE k \in fired : Catalogue[k].name = n].points],
                  contextBonus |-> bonus, correctedBy |-> "none"]

(***************************************************************************)
(* SpeakerClassifier.validateSequence and classifyConversation.            *)
(***************************************************************************)
MiddleMaxLen == 100

\* a variant of RunBreak: the pattern of three ai turns is left alone
RunBreakOff(results, turns, i) == results

\* a variant of RunBreak: two ai turns in a row are enough for the pattern
RunBreakPair(results, turns, i) ==
    IF /\ i >= 3
       /\ results[i].speaker = "ai"
       /\ results[i - 1].speaker = "ai"
       /\ Len(turns[i - 1]) < MiddleMaxLen
       /\ Includes(turns[i - 1], Chars("?"))
    THEN [results EXCEPT ![i - 1].speaker = "user",
                         ![i - 1].correctedBy = "sequenceValidation",
                         ![i - 1].confidence = 65]
    ELSE results

\* a variant of RunBreak: the correction is not recorded in correctedBy
RunBreakUnmarked(results, turns, i) ==
    IF /\ i >= 3
       /\ results[i].speaker = "ai"
       /\ results[i - 1].speaker = "ai"
       /\ results[i - 2].speaker = "ai"
       /\ Len(turns[i - 1]) < MiddleMaxLen
       /\ Includes(turns[i - 1], Chars("?"))
    THEN [results EXCEPT ![i - 1].speaker = "user",
                         ![i - 1].confidence = 65]
    ELSE results

\* the first rule of the loop body, at index i (1-based): the middle of three
\* ai turns becomes a user turn when its text is short and holds a '?'
RunBreak(results, turns, i) ==
    IF /\ i >= 3
       /\ results[i].speaker = "ai"
       /\ results[i - 1].speaker = "ai"
       /\ results[i - 2].speaker = "ai"
       /\ Len(turns[i - 1]) < MiddleMaxLen
       /\ Includes(turns[i - 1], Chars("?"))
    THEN [results EXCEPT ![i - 1].speaker = "user",
                         ![i - 1].correctedBy = "sequenceValidation",
                         ![i - 1].confidence = 65]
    ELSE results

\* a variant of ResolveUncertain: the uncertain turn always becomes an ai turn
ResolveUncertainToAi(results, i) ==
    IF i > 1 /\ results[i].speaker = "uncertain"
       /\ results[i - 1].speaker \in {"ai", "user"}
    THEN [results EXCEPT ![i].speaker = "ai",
                         ![i].correctedBy = "alternationPattern",
                         ![i].confidence = 60]
    ELSE results

\* a variant of ResolveUncertain: only an uncertain turn after an ai turn is
\* resolved
ResolveUncertainAfterAi(results, i) ==
    IF i > 1 /\ results[i].speaker = "uncertain" /\ results[i - 1].speaker = "ai"
    THEN [results EXCEPT ![i].speaker = "user",
                         ![i].correctedBy = "alternationPattern",
                         ![i].confidence = 60]
    ELSE results

\* a variant of ResolveUncertain: the uncertain turn takes the speaker of the
\* turn before it
ResolveUncertainSame(results, i) ==
    IF i > 1 /\ results[i].speaker = "uncertain"
       /\ results[i - 1].speaker \in {"ai", "user"}
    THEN [results EXCEPT ![i].speaker = results[i - 1].speaker,
                         ![i].correctedBy = "alternationPattern",
                         ![i].confidence = 60]
    ELSE results

\* the second rule of the loop body: an uncertain turn after a decided one
\* becomes the other party
ResolveUncertain(results, i) ==
    IF i > 1 /\ results[i].speaker = "uncertain"
       /\ results[i - 1].speaker \in {"ai", "user"}
    THEN [results EXCEPT ![i].speaker = IF results[i - 1].speaker = "ai"
                                        THEN "user" ELSE "ai",
                         ![i].correctedBy = "alternationPattern",
                         ![i].confidence = 60]
    ELSE results

\* one iteration of the loop of validateSequence, at index i (1-based)
ValidateAt(results, turns, i) == ResolveUncertain(RunBreak(results, turns, i), i)

RECURSIVE ValidateUpTo(_, _, _)
\* the results after the iterations 1..n of validateSequence
ValidateUpTo(results, turns, n) ==
    IF n = 0 THEN results
    ELSE ValidateAt(ValidateUpTo(results, turns, n - 1), turns, n)

validateSequence(results, turns) == ValidateUpTo(results, turns, Len(results))

RECURSIVE FirstPass(_, _)
\* the results of the first n turns, each classified with the speaker of the
\* turn before it as previousSpeaker
FirstPass(turns, n) ==
    IF n = 0 THEN <<>>
    ELSE LET before == FirstPass(turns, n - 1)
             previousSpeaker == IF n = 1 THEN "null" ELSE before[n - 1].speaker
         IN  Append(before, classifyTurn(turns[n], previousSpeaker))

classifyConversation(turns) ==
    validateSequence(FirstPass(turns, Len(turns)), turns)

(***************************************************************************)
(* The inputs of the model: texts of at most MaxLines lines of a palette.  *)
(***************************************************************************)
LinePalette ==
    { <<>>,
      Chars(" "),
      Chars("x"),
      Chars("User: hi"),
      Chars("Assistant: hello"),
      Chars("b: "),
      Repeat("z", LabelCap) \o Chars(": x"),
      Repeat("z", LabelCap + 1) \o Chars(": x"),
      Chars("ai") \o Repeat("z", LabelCap - 1) \o Chars(": x") }

RECURSIVE JoinLines(_)
\* lines.join('\n')
JoinLines(lines) ==
    IF Len(lines) = 0 THEN <<>>
    ELSE IF Len(lines) = 1 THEN lines[1]
    ELSE lines[1] \o << "\n" >> \o JoinLines(Tail(lines))

Inputs ==
    { JoinLines(ls) : ls \in UNION { [1..n -> LinePalette] : n \in 1..MaxLines } }

(***************************************************************************)
(* The editor: the source box, the debounced render and the deletion.      *)
(***************************************************************************)
NoResult ==
    [speaker |-> "none", confidence |-> 0, scores |-> [ai |-> 0, user |-> 0],
     features |-> << >>, contextBonus |-> "none", correctedBy |-> "none"]

\* the page as loaded with no saved text: handleInput() of Storage.load has
\* rendered the empty box, and no timer is pending
\* a variant of ClearPending: the pending timer is left in the queue
KeepPending(timeout, pending) == pending

\* if (State.renderTimeout) { clearTimeout(State.renderTimeout); ... }: the
\* callbacks left in the queue
ClearPending(timeout, pending) ==
    IF timeout # "null" /\ pending > 0 THEN pending - 1 ELSE pending

\* no call of updateSourceFromPreview
PreviewIdle ==
    /\ isUpdatingFromPreview = FALSE
    /\ releaseTimers = 0
    /\ previewCalls = 0

EditorInit ==
    /\ input = <<>>
    /\ segments = <<>>
    /\ renderTimeout = "null"
    /\ pendingRenders = 0
    /\ PreviewIdle

\* no call of classifyTurn
TurnIdle ==
    /\ turnText = <<>>
    /\ turnPrevious = "null"
    /\ result = NoResult

\* the Copilot converter has converted nothing
NoMessages == << [speaker |-> "none", text |-> <<>>] >>

CopilotIdle ==
    /\ conversationInput = <<>>
    /\ messages = NoMessages

\* no call of classifyConversation or validateSequence
ConvIdle ==
    /\ convTurns = <<>>
    /\ convResults = <<>>
    /\ convPrevious = "null"
    /\ convPc = "idle"
    /\ convI = 0

Init == EditorInit /\ TurnIdle /\ ConvIdle
    /\ CopilotIdle

\* the 'input' listener: a text is typed into the empty box and
\* handleInput(true) cancels the pending timer and arms a new one
InputEvent(text) ==
    /\ input = <<>>
    /\ input' = text
    /\ renderTimeout' = "armed"
    /\ pendingRenders' = ClearPending(renderTimeout, pendingRenders) + 1
    /\ UNCHANGED <<segments, previewVars, turnVars, convVars, copilotVars>>

\* the timer fires: process() of handleInput parses and renders the text
Process ==
    /\ pendingRenders > 0
    /\ segments' = parseSegments(input)
    /\ renderTimeout' = "null"
    /\ pendingRenders' = pendingRenders - 1
    /\ UNCHANGED <<input, previewVars, turnVars, convVars, copilotVars>>

\* deleteSelectedBubbles with the checked boxes of the bubbles shown, followed
\* by its handleInput(false)
DeleteSelectedBubbles(indicesToDelete) ==
    /\ Len(segments) > 1
    /\ indicesToDelete # {}
    /\ input' = Reconstruct(parseSegments(input), indicesToDelete)
    /\ segments' = parseSegments(input')
    /\ renderTimeout' = "null"
    /\ pendingRenders' = ClearPending(renderTimeout, pendingRenders)
    /\ UNCHANGED <<previewVars, turnVars, convVars, copilotVars>>

\* clearText: the box is emptied and handleInput() renders at once
ClearText ==
    /\ input' = <<>>
    /\ segments' = parseSegments(<<>>)
    /\ renderTimeout' = "null"
    /\ pendingRenders' = ClearPending(renderTimeout, pendingRenders)
    /\ UNCHANGED <<previewVars, turnVars, convVars, copilotVars>>

Next ==
    \/ \E text \in Inputs : InputEvent(text)
    \/ Process
    \/ ClearText
    \/ \E sel \in SUBSET (1..Len(segments)) : DeleteSelectedBubbles(sel)

Spec == Init /\ [][Next]_vars

(***************************************************************************)
(* A call of classifyTurn: the texts are at most MaxFragments fragments    *)
(* of a palette, one after the other.                                      *)
(***************************************************************************)
FragmentPalette ==
    { Chars("assistant:"),
      Chars(" can you"),
      Chars("?"),
      Chars(" yeah"),
      Fence,
      Chars("# "),
      Chars("x"),
      Chars("ok") }

RECURSIVE Concat(_)
Concat(parts) == IF Len(parts) = 0 THEN <<>> ELSE Head(parts) \o Concat(Tail(parts))

\* the texts over LongTextMin characters: a filler between two fragments
LongTexts ==
    { f \o Repeat("z", LongTextMin + 1) \o g : f, g \in FragmentPalette }

TurnTexts ==
    { Concat(fs) : fs \in UNION { [1..n -> FragmentPalette] : n \in 1..MaxFragments } }
        \cup LongTexts

PreviousSpeakers == {"null", "ai", "user", "uncertain"}

TurnInit ==
    /\ EditorInit
    /\ turnText \in TurnTexts
    /\ turnPrevious \in PreviousSpeakers
    /\ result = NoResult
    /\ ConvIdle
    /\ CopilotIdle

\* classifyTurn(turnText, turnPrevious) returns
ClassifyTurnCall ==
    /\ result = NoResult
    /\ result' = classifyTurn(turnText, turnPrevious)
    /\ UNCHANGED <<editorVars, previewVars, turnText, turnPrevious, convVars, copilotVars>>

TurnNext == ClassifyTurnCall

TurnSpec == TurnInit /\ [][TurnNext]_vars

(***************************************************************************)
(* A call of classifyConversation, one loop iteration at a time: the first *)
(* pass classifies the turns in order, then validateSequence runs its loop. *)
(* The turns are at most MaxTurns texts of a palette.                      *)
(***************************************************************************)
ConvPalette ==
    { Chars("assistant:? x"),
      Chars("assistant: x"),
      Chars("user: x"),
      Chars("x"),
      Chars("ok"),
      << "#", " " >> \o Fence }

ConvTurnLists == UNION { [1..n -> ConvPalette] : n \in 0..MaxTurns }

ConvInit ==
    /\ EditorInit
    /\ TurnIdle
    /\ convTurns \in ConvTurnLists
    /\ convResults = <<>>
    /\ convPrevious = "null"
    /\ convPc = "classify"
    /\ convI = 0
    /\ CopilotIdle

\* one iteration of the first pass: classify the next turn with the speaker of
\* the turn before it, push the result, remember its speaker
ClassifyNextTurn ==
    /\ convPc = "classify"
    /\ Len(convResults) < Len(convTurns)
    /\ convResults' = Append(convResults,
                             classifyTurn(convTurns[Len(convResults) + 1], convPrevious))
    /\ convPrevious' = convResults'[Len(convResults')].speaker
    /\ UNCHANGED <<editorVars, previewVars, turnVars, convTurns, convPc, convI, copilotVars>>

\* the first pass is over: this.validateSequence(results, turns) is called
CallValidateSequence ==
    /\ convPc = "classify"
    /\ Len(convResults) = Len(convTurns)
    /\ convPc' = "validate"
    /\ convI' = 1
    /\ UNCHANGED <<editorVars, previewVars, turnVars, convTurns, convResults, convPrevious, copilotVars>>

\* one iteration of the loop of validateSequence
ValidateStep ==
    /\ convPc = "validate"
    /\ convI <= Len(convResults)
    /\ convResults' = ValidateAt(convResults, convTurns, convI)
    /\ convI' = convI + 1
    /\ UNCHANGED <<editorVars, previewVars, turnVars, convTurns, convPrevious, convPc, copilotVars>>

\* the loop is over: validateSequence returns, and classifyConversation with it
ValidateReturn ==
    /\ convPc = "validate"
    /\ convI > Len(convResults)
    /\ convPc' = "done"
    /\ UNCHANGED <<editorVars, previewVars, turnVars, convTurns, convResults, convPrevious, convI, copilotVars>>

ConvNext ==
    \/ ClassifyNextTurn
    \/ CallValidateSequence
    \/ ValidateStep
    \/ ValidateReturn

ConvSpec == ConvInit /\ [][ConvNext]_vars

(***************************************************************************)
(* A call of validateSequence on a list of results that some caller built: *)
(* each result is uncorrected and has one of the three speakers.           *)
(***************************************************************************)
\* a result as classifyTurn returns it for a speaker, with the least scores
\* that decide that speaker
ResultOf(speaker) ==
    [speaker |-> speaker,
     confidence |-> IF speaker = "uncertain" THEN 50 ELSE Confidence(
                        IF speaker = "ai" THEN DiffAi ELSE DiffUser),
     scores |-> IF speaker = "ai" THEN [ai |-> DiffAi, user |-> 0]
                ELSE IF speaker = "user" THEN [ai |-> 0, user |-> -DiffUser]
                ELSE [ai |-> 0, user |-> 0],
     features |-> << >>, contextBonus |-> "none", correctedBy |-> "none"]

Speakers == {"ai", "user", "uncertain"}

\* texts on both sides of the length test of the run-break rule
SeqPalette ==
    { Chars("ok?"),
      Chars("ok"),
      Repeat("z", MiddleMaxLen - 2) \o Chars("?"),
      Repeat("z", MiddleMaxLen - 1) \o Chars("?") }

SeqInit ==
    /\ EditorInit
    /\ TurnIdle
    /\ \E n \in 0..MaxTurns :
          /\ convTurns \in [1..n -> SeqPalette]
          /\ convResults \in [1..n -> {ResultOf(sp) : sp \in Speakers}]
    /\ convPrevious = "null"
    /\ convPc = "validate"
    /\ convI = 1
    /\ CopilotIdle

SeqNext ==
    \/ ValidateStep
    \/ ValidateReturn

SeqSpec == SeqInit /\ [][SeqNext]_vars

(***************************************************************************)
(* The claims.                                                             *)
(***************************************************************************)
\* the segments shown are those of the text in the box (no render is pending)
Rendered == renderTimeout = "null"

\* a text with a character that is no whitespace
NonBlank(s) == \E k \in 1..Len(s) : ~IsSpace(s[k])

Kinds(segs) == [i \in 1..Len(segs) |-> segs[i].type]

InputLines == SplitLines(input)

\* the label scan of the text dropped a buffer that held only whitespace
DroppedBlankBuffer ==
    \E n \in 1..(Len(InputLines) - 1) :
        LET st == ScanLines(InputLines, n)
        IN  /\ Len(st.cur.content) > 0
            /\ ~NonBlank(st.cur.content)
            /\ Len(DetectLabel(InputLines[n + 1]).speakerName) > 0

\* C1: no turn of a list returned by parseSegments has a content that is empty
\* or holds only whitespace.
C1_NoBlankTurn ==
    \A i \in 1..Len(segments) : NonBlank(segments[i].content)

C1_Witness ==
    /\ Rendered
    /\ Len(segments) >= 1
    /\ DroppedBlankBuffer

KeepNonBlank(seg) == NonBlank(seg.content)

LabelsConclusive(text) ==
    LET byLabels == parseByLabels(text)
    IN  Len(byLabels) >= 2
        /\ \E i \in 1..Len(byLabels) : byLabels[i].type \in {"user", "ai"}

\* C2: when parseByLabels gives at least 2 turns of which one has a known kind,
\* parseSegments returns exactly those turns, in order, minus the turns of
\* whitespace only; no blank-line strategy replaces them.
C2_LabelsAccepted ==
    (Rendered /\ LabelsConclusive(input))
        => segments = SelectSeq(parseByLabels(input), KeepNonBlank)

C2_Witness ==
    /\ Rendered
    /\ LabelsConclusive(input)
    /\ Len(parseByAlternatingTurns(input)) > 1
    /\ segments # parseByAlternatingTurns(input)
    /\ segments = parseByLabels(input)

\* the kind of a turn that the classifier decided
KindOfSpeaker(speaker) == IF speaker = "uncertain" THEN "unknown" ELSE speaker

ClassifierKinds(blocks) ==
    LET results == classifyConversation(blocks)
    IN  [i \in 1..Len(results) |-> KindOfSpeaker(results[i].speaker)]

\* C3: when the labels are inconclusive and the text has at least 2 blank-line
\* blocks, the kinds of the returned turns are the decisions of
\* classifyConversation (classifyTurn in order, then validateSequence) on the blocks.
C3_ClassifierDecidesKinds ==
    (Rendered /\ ~LabelsConclusive(input) /\ Len(SplitBlocks(input)) >= 2)
        => Kinds(segments) = ClassifierKinds(SplitBlocks(input))

NoLabelLine(text) ==
    \A n \in 1..Len(SplitLines(text)) :
        Len(DetectLabel(SplitLines(text)[n]).speakerName) = 0

\* a text with content, no speaker label and no blank-line break
SingleUnlabelledBlock(text) ==
    /\ NonBlank(text)
    /\ NoLabelLine(text)
    /\ Len(SplitBlocks(text)) < 2

\* C4: a text with content, no speaker label and no blank-line break gives
\* exactly 1 turn, and its kind is primary ('user').
C4_SingleBlockIsPrimary ==
    (Rendered /\ SingleUnlabelledBlock(input))
        => (Len(segments) = 1 /\ segments[1].type = "user")

\* C5 as stated: a degenerate input (empty, whitespace only, or a single block)
\* gives exactly one turn.
C5_DegenerateGivesOneTurn ==
    (Rendered /\ (~NonBlank(input) \/ SingleUnlabelledBlock(input)))
        => Len(segments) = 1

\* C5, amended: an empty or whitespace-only input gives the empty list, and a
\* single unlabelled block gives exactly one turn, which holds the block.
C5_DegenerateResult ==
    Rendered =>
        /\ ~NonBlank(input) => segments = <<>>
        /\ SingleUnlabelledBlock(input) =>
              /\ Len(segments) = 1
              /\ JsTrim(segments[1].content) = JsTrim(input)

C5_Witness ==
    /\ Rendered
    /\ SingleUnlabelledBlock(input)
    /\ Len(segments) = 1

\* C6: the text rebuilt from the turns of a parse (label prefix, trimmed content
\* and two newlines for each turn, the whole trimmed) parses to as many turns,
\* with the same kinds in the same order.
C6_RoundTripKeepsKinds ==
    Rendered => Kinds(parseSegments(Reconstruct(segments, {}))) = Kinds(segments)

\* the text before the first colon of a line, and the text after it
NameOf(line) == SubSeq(line, 1, IndexOf(line, ":") - 1)

RestOf(line) == SubSeq(line, IndexOf(line, ":") + 1, Len(line))

\* a line 'Name: text': a name of 1 to 100 characters, a colon, whitespace, a text
IsGenericLabelLine(line) ==
    /\ IndexOf(line, ":") \in 2..(LabelCap + 1)
    /\ NonBlank(NameOf(line))
    /\ Len(RestOf(line)) > 0 /\ IsSpace(RestOf(line)[1])
    /\ NonBlank(RestOf(line))

OnlyGenericLabelLines(text) ==
    \A n \in 1..Len(SplitLines(text)) : IsGenericLabelLine(SplitLines(text)[n])

TheExample == Chars("User: hi\nAssistant: hello")

Contents(segs) == [i \in 1..Len(segs) |-> segs[i].content]

\* C7 as stated: on lines 'Name: text' parseByLabels gives one turn per line, in
\* order, primary when the name holds a primary-party keyword and counterpart
\* otherwise, with the text after the label as content; "User: hi\nAssistant: hello"
\* gives the contents "hi" and "hello".
C7_ContentIsLabelText ==
    OnlyGenericLabelLines(input) =>
        LET turns == parseByLabels(input)
        IN  /\ Len(turns) = Len(InputLines)
            /\ \A n \in 1..Len(turns) :
                  /\ turns[n].type =
                        IF userKeywordRegex(ToLowerCase(NameOf(InputLines[n])))
                        THEN "user" ELSE "ai"
                  /\ turns[n].content = JsTrim(RestOf(InputLines[n]))
            /\ input = TheExample =>
                  /\ Kinds(turns) = << "user", "ai" >>
                  /\ Contents(turns) = << Chars("hi"), Chars("hello") >>

\* C7, amended: the same, the content of each turn being the trimmed text after
\* the label followed by one newline ("hi\n" and "hello\n" in the example).
C7_ContentIsLabelTextAndNewline ==
    OnlyGenericLabelLines(input) =>
        LET turns == parseByLabels(input)
        IN  /\ Len(turns) = Len(InputLines)
            /\ \A n \in 1..Len(turns) :
                  /\ turns[n].type =
                        IF userKeywordRegex(ToLowerCase(NameOf(InputLines[n])))
                        THEN "user" ELSE "ai"
                  /\ turns[n].content = JsTrim(RestOf(InputLines[n])) \o << "\n" >>
            /\ input = TheExample =>
                  /\ Kinds(turns) = << "user", "ai" >>
                  /\ Contents(turns) = << Chars("hi\n"), Chars("hello\n") >>

C7_Witness ==
    /\ Rendered
    /\ input = TheExample
    /\ Kinds(segments) = << "user", "ai" >>

\* a line whose first colon has more than 100 characters before it
OverCap(line) == IndexOf(line, ":") > LabelCap + 1

\* the scan treats line n as content: no turn is started, the line and a newline
\* are appended to the turn being accumulated, whose prefix is as it was
AppendedAsContent(n) ==
    LET before == ScanLines(InputLines, n - 1)
        after  == ScanLines(InputLines, n)
    IN  /\ after.segs = before.segs
        /\ after.cur = [before.cur EXCEPT !.content = @ \o InputLines[n] \o << "\n" >>]

\* C8 as stated: a line whose first colon has more than 100 characters before it
\* is never a speaker label: it is appended to the turn being accumulated.
C8_OverCapIsContent ==
    \A n \in 1..Len(InputLines) : OverCap(InputLines[n]) => AppendedAsContent(n)

\* C8, amended: such a line is never a generic colon label, and it is appended
\* to the turn being accumulated unless it begins with a speaker keyword (the
\* keyword-anchored label, which is tried next and has no cap).
C8_OverCapIsNoGenericLabel ==
    \A n \in 1..Len(InputLines) :
        OverCap(InputLines[n]) =>
            /\ ~permissiveSpeakerRegex(InputLines[n]).matched
            /\ ~keywordSpeakerRegex(InputLines[n]).matched => AppendedAsContent(n)

C8_Witness ==
    /\ Rendered
    /\ Len(segments) >= 1
    /\ \E n \in 1..Len(InputLines) :
          /\ OverCap(InputLines[n])
          /\ ~keywordSpeakerRegex(InputLines[n]).matched
          /\ AppendedAsContent(n)

Returned == result # NoResult

ResultDiff == result.scores.ai - result.scores.user

\* C9: with diff the counterpart score minus the primary score of a result of
\* classifyTurn, the speaker is counterpart exactly when diff >= 4, primary
\* exactly when diff <= -3 and uncertain exactly when diff is in -2..3.
C9_Thresholds ==
    Returned =>
        /\ result.speaker = "ai" <=> ResultDiff >= 4
        /\ result.speaker = "user" <=> ResultDiff <= -3
        /\ result.speaker = "uncertain" <=> ResultDiff \in -2..3

C9_Witness ==
    /\ Returned
    /\ ResultDiff = 3
    /\ result.speaker = "uncertain"

\* C10: a text that starts with "assistant:" is classified counterpart, whatever
\* the previous speaker and the other features that fire on it.
C10_MarkerWins ==
    (Returned /\ MatchAt(turnText, 1, Chars("assistant:")))
        => result.speaker = "ai"

SpeakersOf(results) == [k \in 1..Len(results) |-> results[k].speaker]

\* the loop of validateSequence is about to run its iteration convI
AtIteration == convPc = "validate" /\ convI \in 1..Len(convResults)

\* the run-break pattern as the iteration convI finds it
RunBreakPattern ==
    /\ AtIteration
    /\ convI >= 3
    /\ \A k \in (convI - 2)..convI : convResults[k].speaker = "ai"
    /\ Len(convTurns[convI - 1]) < 100
    /\ \E k \in 1..Len(convTurns[convI - 1]) : convTurns[convI - 1][k] = "?"

RunBreakStep ==
    RunBreakPattern =>
        /\ convResults'[convI - 1] =
              [convResults[convI - 1] EXCEPT !.speaker = "user", !.confidence = 65,
                                             !.correctedBy = "sequenceValidation"]
        /\ (Len(convResults) = 3 /\ convTurns[2] = Chars("ok?"))
              => SpeakersOf(convResults') = << "ai", "user", "ai" >>

\* C11: whenever the loop of validateSequence reaches an index i (0-based, >= 2)
\* whose turns i, i-1 and i-2 are all ai, the text of i-1 being shorter than 100
\* characters and holding a '?', the iteration makes turn i-1 a user turn with
\* confidence 0.65 and correctedBy "sequenceValidation"; [ai, ai, ai] with the
\* middle text "ok?" ends as [ai, user, ai].
C11_RunBreak == [][RunBreakStep]_vars

C11_Witness ==
    /\ convPc = "done"
    /\ Len(convResults) = 3
    /\ convTurns[2] = Chars("ok?")
    /\ SpeakersOf(convResults) = << "ai", "user", "ai" >>
    /\ convResults[2].correctedBy = "sequenceValidation"
    /\ convResults[2].confidence = 65

\* the iteration convI finds an uncertain turn that has a turn before it
UncertainReached ==
    /\ AtIteration
    /\ convI > 1
    /\ convResults[convI].speaker = "uncertain"

OtherParty(speaker) == IF speaker = "ai" THEN "user" ELSE "ai"

\* the iteration forces turn convI to the party opposite to turn convI-1
ForcedToOpposite ==
    convResults'[convI] =
        [convResults[convI] EXCEPT !.speaker = OtherParty(convResults[convI - 1].speaker),
                                   !.confidence = 60,
                                   !.correctedBy = "alternationPattern"]

\* C12 as stated: every turn i > 0 that is uncertain when the loop reaches it is
\* forced to the opposite of the speaker turn i-1 holds at that moment, with
\* confidence 0.6 and correctedBy "alternationPattern".
C12_UncertainAlwaysForced == [][UncertainReached => ForcedToOpposite]_vars

\* C12, amended: it is forced so when turn i-1 is then decided (ai or user),
\* a correction already applied to i-1 included; when turn i-1 is uncertain
\* too, turn i is left as it is.
C12_UncertainForcedAfterDecided ==
    [][UncertainReached =>
          IF convResults[convI - 1].speaker \in {"ai", "user"}
          THEN ForcedToOpposite
          ELSE convResults'[convI] = convResults[convI]]_vars

C12_Witness ==
    /\ convPc = "done"
    /\ Len(convResults) = 3
    /\ convResults[2].correctedBy = "alternationPattern"
    /\ convResults[2].speaker = "user"
    /\ convResults[3].correctedBy = "alternationPattern"
    /\ convResults[3].speaker = "ai"
    /\ convResults[3].confidence = 60

\* the size of the score difference of a result
DiffSize(r) ==
    IF r.scores.ai >= r.scores.user THEN r.scores.ai - r.scores.user
    ELSE r.scores.user - r.scores.ai

\* the confidence, in hundredths, of a decided turn
DecidedConfidence(r) ==
    IF 70 + 5 * DiffSize(r) > 95 THEN 95 ELSE 70 + 5 * DiffSize(r)

ConfidenceAsDocumented(r) ==
    /\ r.confidence \in 50..95
    /\ r.correctedBy = "none" =>
          r.confidence = IF r.speaker = "uncertain" THEN 50 ELSE DecidedConfidence(r)
    /\ r.correctedBy = "sequenceValidation" => r.confidence = 65
    /\ r.correctedBy = "alternationPattern" => r.confidence = 60

\* C13: every result, as classifyTurn returned it and after validateSequence
\* has run, has a confidence within [0.5, 0.95]: 0.5 for an uncertain turn,
\* min(0.95, 0.7 + |diff|/20) for a decided turn, 0.65 or 0.6 for a corrected one.
C13_ConfidenceRange ==
    \A k \in 1..Len(convResults) : ConfidenceAsDocumented(convResults[k])

C13_Witness ==
    /\ convPc = "done"
    /\ \E k \in 1..Len(convResults) :
          /\ convResults[k].correctedBy = "none"
          /\ DiffSize(convResults[k]) > 5
          /\ convResults[k].confidence = 95
    /\ \E k \in 1..Len(convResults) :
          /\ convResults[k].correctedBy = "sequenceValidation"
          /\ convResults[k].confidence = 65

\* the speaker the decision rule assigns to the scores of a result
RuleSpeaker(r) ==
    IF r.scores.ai - r.scores.user >= 4 THEN "ai"
    ELSE IF r.scores.ai - r.scores.user <= -3 THEN "user"
    ELSE "uncertain"

\* the validator rule that turns the rule's speaker into another one
RuleThatChanges(speaker) ==
    IF speaker = "uncertain" THEN "alternationPattern"
    ELSE IF speaker = "ai" THEN "sequenceValidation"
    ELSE "no rule"

CorrectedByIsTruthful(r) ==
    /\ r.correctedBy = "none" => r.speaker = RuleSpeaker(r)
    /\ r.speaker # RuleSpeaker(r) => r.correctedBy = RuleThatChanges(RuleSpeaker(r))
    /\ r.correctedBy # "none" => r.speaker # RuleSpeaker(r)

\* C14: once classifyConversation has returned, a result with no correctedBy has
\* the speaker the decision rule gives its scores, a result with another speaker
\* has the correctedBy of the validator rule that changed it, and correctedBy is
\* set on no result that the validator left as the rule decided it.
C14_CorrectedByMarksChanges ==
    convPc = "done" =>
        \A k \in 1..Len(convResults) : CorrectedByIsTruthful(convResults[k])

C14_Witness ==
    /\ convPc = "done"
    /\ \E k \in 1..Len(convResults) :
          /\ convResults[k].correctedBy = "sequenceValidation"
          /\ convResults[k].speaker = "user"
          /\ RuleSpeaker(convResults[k]) = "ai"
    /\ \E k \in 1..Len(convResults) :
          /\ convResults[k].correctedBy = "none"
          /\ convResults[k].speaker = "ai"

\* a step writes only results that no rule has written before, and marks them
WritesOnlyUncorrected ==
    \A k \in 1..Len(convResults) :
        convResults'[k] # convResults[k] =>
            /\ convResults[k].correctedBy = "none"
            /\ convResults'[k].correctedBy # "none"

\* C15: in one pass of validateSequence over a list of uncorrected results no
\* index is modified by both rules: a result that a rule has rewritten is never
\* rewritten again, so correctedBy is written at most once per result.
C15_NoDoubleModification == [][WritesOnlyUncorrected]_vars

C15_Witness ==
    /\ convPc = "done"
    /\ \E k \in 1..Len(convResults) : \E j \in 1..Len(convResults) :
          /\ j = k + 2
          /\ convResults[k].correctedBy = "sequenceValidation"
          /\ convResults[j].correctedBy = "alternationPattern"

\* the step is an iteration of the first pass: one result is pushed
FirstPassStep == convPc = "classify" /\ Len(convResults') = Len(convResults) + 1

\* the hint of the turn being classified: none for the first turn, else the
\* speaker the turn before it has, which no validator has touched yet
HintOfNext ==
    IF Len(convResults) = 0 THEN "null" ELSE convResults[Len(convResults)].speaker

\* the scores of the turn being classified, were it classified with no hint
ScoresWithoutHint == classifyTurn(convTurns[Len(convResults) + 1], "null").scores

\* the result pushed has the scores of the next turn in index order, the hint
\* adding 1 to the score of the other party and nothing else
HintAddsOne ==
    LET pushed == convResults'[Len(convResults')].scores
    IN  /\ SubSeq(convResults', 1, Len(convResults)) = convResults
        /\ \A k \in 1..Len(convResults) : convResults[k].correctedBy = "none"
        /\ pushed.user = ScoresWithoutHint.user + (IF HintOfNext = "ai" THEN 1 ELSE 0)
        /\ pushed.ai = ScoresWithoutHint.ai + (IF HintOfNext = "user" THEN 1 ELSE 0)

\* the same, but for the bare acknowledgements, whose scores are 0 whatever the hint
HintAddsOneUnlessAcknowledgement ==
    LET pushed == convResults'[Len(convResults')].scores
        ack == IsBareAcknowledgement(JsTrim(convTurns[Len(convResults) + 1]))
    IN  /\ SubSeq(convResults', 1, Len(convResults)) = convResults
        /\ \A k \in 1..Len(convResults) : convResults[k].correctedBy = "none"
        /\ ack => (pushed.user = 0 /\ pushed.ai = 0)
        /\ ~ack => /\ pushed.user = ScoresWithoutHint.user
                                       + (IF HintOfNext = "ai" THEN 1 ELSE 0)
                   /\ pushed.ai = ScoresWithoutHint.ai
                                       + (IF HintOfNext = "user" THEN 1 ELSE 0)

\* the validator runs only once every turn has a result, changes no scores, and
\* nothing changes once it has returned
ValidatorRunsLast ==
    /\ convPc \in {"validate", "done"} =>
          /\ Len(convResults) = Len(convTurns)
          /\ Len(convResults') = Len(convResults)
          /\ \A k \in 1..Len(convResults) : convResults'[k].scores = convResults[k].scores
          /\ convPc' # "classify"
    /\ convPc = "done" => convResults' = convResults /\ convPc' = "done"

\* C16 as stated: classifyConversation classifies the turns in index order, turn
\* 0 with no hint and turn i > 0 with the first-pass speaker of turn i-1; an ai
\* hint adds exactly 1 to the user score, a user hint exactly 1 to the ai score,
\* an uncertain or absent hint nothing; validateSequence runs once, after every
\* turn is classified, and changes no scores.
C16_OrderAndHint ==
    [][(FirstPassStep => HintAddsOne) /\ ValidatorRunsLast]_vars

\* C16, amended: the same, except that a bare acknowledgement ("ok", "yes",
\* "thanks", ...) returns before the hint is looked at: its scores are 0 and 0.
C16_OrderAndHintUnlessAcknowledgement ==
    [][(FirstPassStep => HintAddsOneUnlessAcknowledgement) /\ ValidatorRunsLast]_vars

C16_Witness ==
    /\ convPc = "done"
    /\ Len(convResults) >= 3
    /\ convResults[2].contextBonus = "followsAI"
    /\ convResults[2].scores.user = classifyTurn(convTurns[2], "null").scores.user + 1
    /\ convResults[3].contextBonus = "followsUser"
    /\ convResults[3].scores.ai = classifyTurn(convTurns[3], "null").scores.ai + 1

\* the catalogue as the specification documents it: feature, points, target
DocumentedCatalogue ==
    { [name |-> "codeBlock",          points |-> 4,  target |-> "ai"],
      [name |-> "markdownHeading",    points |-> 2,  target |-> "ai"],
      [name |-> "longText",           points |-> 3,  target |-> "ai"],
      [name |-> "shortText",          points |-> 2,  target |-> "user"],
      [name |-> "multiParagraph",     points |-> 2,  target |-> "ai"],
      [name |-> "endsWithQuestion",   points |-> 3,  target |-> "user"],
      [name |-> "politeRequest",      points |-> 3,  target |-> "user"],
      [name |-> "presentationPhrase", points |-> 3,  target |-> "ai"],
      [name |-> "offerHelp",          points |-> 2,  target |-> "ai"],
      [name |-> "casualSpeech",       points |-> 2,  target |-> "user"],
      [name |-> "formalConnectors",   points |-> 2,  target |-> "ai"],
      [name |-> "metaReference",      points |-> 2,  target |-> "ai"],
      [name |-> "apologetic",         points |-> 2,  target |-> "ai"],
      [name |-> "imperativeCommand",  points |-> 3,  target |-> "user"],
      [name |-> "explainedCode",      points |-> 2,  target |-> "ai"],
      [name |-> "detailedList",       points |-> 2,  target |-> "ai"],
      [name |-> "gratitude",          points |-> 2,  target |-> "user"],
      [name |-> "hasEmoji",           points |-> 2,  target |-> "user"],
      [name |-> "capsIntensity",      points |-> 2,  target |-> "user"],
      [name |-> "explicitUserMarker", points |-> 10, target |-> "user"],
      [name |-> "explicitAIMarker",   points |-> 10, target |-> "ai"] }

RECURSIVE SumWeights(_)
\* the sum of the points of a set of catalogue entries
SumWeights(entries) ==
    IF entries = {} THEN 0
    ELSE LET e == CHOOSE x \in entries : TRUE
         IN  e.points + SumWeights(entries \ {e})

\* the names of the features a result records
Recorded == DOMAIN result.features

\* the documented entries of the recorded features that target a score
RecordedFor(target) ==
    {e \in DocumentedCatalogue : e.name \in Recorded /\ e.target = target}

\* C17: for every result of classifyTurn, the counterpart score is the sum of
\* the catalogue weights of the recorded counterpart-targeted features, plus 1
\* when the context tag says the previous turn was primary, and the primary
\* score the sum for the primary-targeted ones, plus 1 when the previous turn
\* was counterpart; every recorded feature is in the catalogue, with its fixed
\* positive weight and one target; longText and shortText never both fire.
C17_ScoresAreRecordedWeights ==
    Returned =>
        /\ \A n \in Recorded :
              /\ Cardinality({e \in DocumentedCatalogue : e.name = n}) = 1
              /\ \A e \in DocumentedCatalogue :
                    e.name = n => result.features[n] = e.points /\ e.points > 0
        /\ result.scores.ai = SumWeights(RecordedFor("ai"))
              + (IF result.contextBonus = "followsUser" THEN 1 ELSE 0)
        /\ result.scores.user = SumWeights(RecordedFor("user"))
              + (IF result.contextBonus = "followsAI" THEN 1 ELSE 0)
        /\ ~({"longText", "shortText"} \subseteq Recorded)

C17_Witness ==
    /\ Returned
    /\ "longText" \in Recorded
    /\ "endsWithQuestion" \in Recorded
    /\ "explicitAIMarker" \in Recorded
    /\ result.contextBonus = "followsAI"
    /\ result.scores.ai = 13
    /\ result.scores.user > 3

\* the turns parseByLabels has emitted when its post-pass starts
Emitted == FinalFlush(ScanAll(SplitLines(input)))

\* the kind opposite to a known kind
OppositeKind(kind) ==
    IF kind = "ai" THEN "user" ELSE IF kind = "user" THEN "ai" ELSE "none"

\* the display name of a known kind
DisplayName(kind) ==
    IF kind = "user" THEN Chars("User")
    ELSE IF kind = "ai" THEN Chars("Assistant") ELSE Chars("none")

\* C18: in the post-pass of parseByLabels, whenever the first emitted turn has
\* kind unknown and a second turn exists, the kind of the first turn becomes the
\* opposite of the kind of the second and its name "User" (primary) or
\* "Assistant" (counterpart); the kind, name and content of no other turn change.
C18_PostPassInfersFirstKind ==
    LET after == parseByLabels(input)
    IN  /\ Len(after) = Len(Emitted)
        /\ \A k \in 2..Len(Emitted) : after[k] = Emitted[k]
        /\ (Len(Emitted) > 1 /\ Emitted[1].type = "unknown") =>
              /\ after[1].type = OppositeKind(Emitted[2].type)
              /\ after[1].speaker = DisplayName(after[1].type)
              /\ after[1].content = Emitted[1].content

\* an unlabelled first turn before a counterpart label and one before a primary
\* label cannot be in one text: the witness is the first of the two
C18_Witness ==
    /\ Rendered
    /\ Len(Emitted) > 2
    /\ Emitted[1].type = "unknown"
    /\ Emitted[2].type = "ai"
    /\ Emitted[3].type = "user"
    /\ parseByLabels(input)[1].type = "user"
    /\ parseByLabels(input)[1].speaker = Chars("User")
    /\ segments = parseByLabels(input)

\* the result of parseSegments(input) is that of parseByAlternatingTurns
UsedAlternate ==
    /\ Len(parseByLabels(input)) < 2 \/ ~hasKnownLabels(parseByLabels(input))
    /\ Len(parseByAlternatingTurns(input)) > 1

\* the result of parseSegments(input) is that of parseByHeuristicSplit
UsedHeuristic ==
    /\ ~UsedAlternate
    /\ Len(parseByLabels(input)) < 2
    /\ Len(parseByHeuristicSplit(input)) > 1

\* the blocks of the input that are not empty, in order
NonEmptyBlocks == SelectSeq(SplitBlocks(input), NonBlank)

\* C19: whenever the result of parseSegments comes from the blank-line
\* strategy, it has one turn per non-empty block, in block order, and the kinds
\* alternate from primary: turn k (from 0) is primary when k is even and
\* counterpart when k is odd, whatever the blocks hold.
C19_StructuralAlternates ==
    (Rendered /\ (UsedAlternate \/ UsedHeuristic)) =>
        /\ Len(segments) = Len(NonEmptyBlocks)
        /\ \A k \in 1..Len(segments) :
              /\ segments[k].content = JsTrim(NonEmptyBlocks[k])
              /\ segments[k].type = (IF (k - 1) % 2 = 0 THEN "user" ELSE "ai")

C19_Witness ==
    /\ Rendered
    /\ UsedAlternate
    /\ Len(segments) = 2
    /\ segments[1].type = "user"
    /\ segments[1].content = Chars("Assistant: hello")
    /\ segments[2].type = "ai"

\* the ASCII characters the texts of the model are made of: letters, digits,
\* spaces and punctuation
AsciiCharacters ==
    DOMAIN LowerMap \cup DOMAIN UpperMap \cup {c \in {"0", "1", "2", "3", "4",
        "5", "6", "7", "8", "9"} : IsDigit(c)}
        \cup {" ", "\n", "\t", ":", "?", "#", Backquote}

AsciiOnly(t) == \A k \in 1..Len(t) : t[k] \in AsciiCharacters

\* C20: hasEmoji fires, adding 2 to the primary score, if and only if the
\* trimmed text holds an emoji character; a text made only of ASCII letters,
\* digits, spaces and punctuation never receives the hasEmoji contribution.
C20_NoEmojiInAscii ==
    (Returned /\ AsciiOnly(JsTrim(turnText))) => "hasEmoji" \notin DOMAIN result.features

\* validateSequence is about to start on convResults
BeforePass == convPc = "validate" /\ convI = 1

\* the results 1..i (1-based) are all uncertain
AllUncertainUpTo(results, i) == \A k \in 1..i : results[k].speaker = "uncertain"

\* the uncertain results of a list form a leading run
UncertainIsLeadingRun(results) ==
    \A k \in 1..Len(results) :
        results[k].speaker = "uncertain" => AllUncertainUpTo(results, k)

\* C21: after validateSequence a result at index i > 0 is still uncertain if and
\* only if every result at the indices 0..i was uncertain before the pass: once
\* a turn is decided no later turn stays uncertain, the uncertain results are a
\* leading run. Stated on the pass as a whole from the state before it, and on
\* the state the stepwise pass ends in, where the speaker before the pass is the
\* one the decision rule gives the (unchanged) scores.
C21_UncertainOnlyLeading ==
    /\ BeforePass =>
          /\ \A i \in 2..Len(convResults) :
                validateSequence(convResults, convTurns)[i].speaker = "uncertain"
                    <=> AllUncertainUpTo(convResults, i)
          /\ UncertainIsLeadingRun(validateSequence(convResults, convTurns))
    /\ convPc = "done" =>
          /\ \A i \in 2..Len(convResults) :
                convResults[i].speaker = "uncertain"
                    <=> \A k \in 1..i : RuleSpeaker(convResults[k]) = "uncertain"
          /\ UncertainIsLeadingRun(convResults)

C21_Witness ==
    /\ convPc = "done"
    /\ Len(convResults) = 4
    /\ convResults[1].speaker = "uncertain"
    /\ convResults[2].speaker = "uncertain"
    /\ RuleSpeaker(convResults[3]) = "user"
    /\ RuleSpeaker(convResults[4]) = "uncertain"
    /\ convResults[4].speaker = "ai"

\* the speaker, confidence and correctedBy of every result of a list
Verdicts(results) ==
    [k \in 1..Len(results) |->
        << results[k].speaker, results[k].confidence, results[k].correctedBy >>]

\* C22: validateSequence is idempotent: run a second time on the output of the
\* first run, with the same texts, it changes no speaker, confidence or
\* correctedBy. Stated on the pass as a whole from the state before it, and on
\* the list the stepwise pass has left.
C22_ValidateIdempotent ==
    /\ BeforePass =>
          Verdicts(validateSequence(validateSequence(convResults, convTurns), convTurns))
              = Verdicts(validateSequence(convResults, convTurns))
    /\ convPc = "done" =>
          Verdicts(validateSequence(convResults, convTurns)) = Verdicts(convResults)

\* a pass in which both rules have fired, and a second pass over its output
C22_Witness ==
    /\ convPc = "done"
    /\ \E k \in 1..Len(convResults) : convResults[k].correctedBy = "sequenceValidation"
    /\ \E k \in 1..Len(convResults) : convResults[k].correctedBy = "alternationPattern"
    /\ validateSequence(convResults, convTurns) = convResults

\* C23: in every list returned by parseByLabels only the turn at index 0 can
\* have kind unknown, and in a list of 2 or more turns no turn has kind unknown;
\* hence the test hasKnownLabels of parseSegments is true whenever the list has
\* at least 2 turns.
C23_UnknownOnlyAlone ==
    /\ \A k \in 2..Len(parseByLabels(input)) : parseByLabels(input)[k].type # "unknown"
    /\ Len(parseByLabels(input)) >= 2 =>
          /\ \A k \in 1..Len(parseByLabels(input)) :
                parseByLabels(input)[k].type \in {"user", "ai"}
          /\ hasKnownLabels(parseByLabels(input))

C23_Witness ==
    /\ Rendered
    /\ Len(Emitted) = 2
    /\ Emitted[1].type = "unknown"
    /\ Emitted[2].type = "user"
    /\ parseByLabels(input)[1].type = "ai"
    /\ parseByLabels(input)[1].speaker = Chars("Assistant")

\* the two blank-line splitters return the same list for the input
SplittersAgree == parseByAlternatingTurns(input) = parseByHeuristicSplit(input)

\* the third stage of parseSegments returns what the second stage left
ThirdStageKeeps ==
    ThirdStage(SecondStage(parseByLabels(input), parseByAlternatingTurns(input)),
               parseByHeuristicSplit(input))
        = SecondStage(parseByLabels(input), parseByAlternatingTurns(input))

\* no block of the split of the trimmed input is empty
NoEmptyBlock == \A k \in 1..Len(SplitBlocks(input)) : Len(SplitBlocks(input)[k]) > 0

\* C24 as stated: for every input text parseByAlternatingTurns and
\* parseByHeuristicSplit return the same turn list, splitting the trimmed text
\* never yields an empty block, and the third stage of parseSegments never
\* changes the result of the second stage.
C24_SplittersEquivalent == SplittersAgree /\ ThirdStageKeeps /\ NoEmptyBlock

\* C24, amended: the same, but the split yields no empty block only for a text
\* that is not blank; the split of a blank text is the one empty block, on
\* which both splitters return the empty list.
C24_SplittersEquivalentNonBlank ==
    /\ SplittersAgree
    /\ ThirdStageKeeps
    /\ NonBlank(input) => (NoEmptyBlock /\ \A k \in 1..Len(SplitBlocks(input)) :
                                               NonBlank(SplitBlocks(input)[k]))
    /\ ~NonBlank(input) => /\ SplitBlocks(input) = << <<>> >>
                           /\ parseByAlternatingTurns(input) = <<>>

C24_Witness ==
    /\ Rendered
    /\ Len(SplitBlocks(input)) = 2
    /\ Len(parseByHeuristicSplit(input)) = 2
    /\ parseByHeuristicSplit(input) = parseByAlternatingTurns(input)
    /\ Len(parseByLabels(input)) < 2
    /\ segments = parseByHeuristicSplit(input)
    /\ \E k \in 1..Len(input) : input[k] = " " /\ k > 1 /\ input[k - 1] = "\n"

\* the kind and trimmed content of every turn of a list
KindAndContent(segs) ==
    [k \in 1..Len(segs) |-> << segs[k].type, JsTrim(segs[k].content) >>]

RECURSIVE WithoutFrom(_, _, _)
\* the turns i.. of a list whose index is not selected
WithoutFrom(segs, i, selected) ==
    IF i > Len(segs) THEN <<>>
    ELSE (IF i \in selected THEN <<>> ELSE << segs[i] >>)
            \o WithoutFrom(segs, i + 1, selected)

\* the step is deleteSelectedBubbles on the turns shown, the boxes of the
\* indices selected being checked
DeletesShown(selected) ==
    /\ Rendered
    /\ segments = parseSegments(input)
    /\ DeleteSelectedBubbles(selected)

\* C25: after deleteSelectedBubbles has removed the selected turn indices, the
\* segmentation of the rebuilt input text is the previous turn list without the
\* selected indices: every kept turn is there, in the same order, with the same
\* kind and trimmed content.
C25_DeleteKeepsOtherTurns ==
    [][\A selected \in SUBSET (1..Len(segments)) :
          DeletesShown(selected) =>
              KindAndContent(segments') =
                  KindAndContent(WithoutFrom(segments, 1, selected))]_vars

\* at most one render is pending, and State.renderTimeout is null exactly when
\* none is
OnePendingRender ==
    /\ pendingRenders \in {0, 1}
    /\ renderTimeout = "null" <=> pendingRenders = 0

\* a step of handleInput or of its timer: a debounced call leaves one timer
\* pending whatever was pending before; a step that leaves none pending (an
\* immediate call, or the timer firing) has rendered the input value current
\* then; the render changes only with such a step
RenderStep ==
    /\ renderTimeout' = "armed" => pendingRenders' = 1
    /\ renderTimeout' = "null" =>
          pendingRenders' = 0 /\ segments' = parseSegments(input')
    /\ segments' # segments => renderTimeout' = "null"
    /\ (renderTimeout = "armed" /\ renderTimeout' = "armed") => segments' = segments

MaxPreviewCalls == 3

\* a variant of Reentered: the guard is never seen set
NeverReentered(updating) == FALSE

\* if (State.isUpdatingFromPreview) return
Reentered(updating) == updating

\* the texts of the source box
PreviewInputs ==
    { <<>>,
      Chars("x"),
      JoinLines(<< Chars("x"), <<>>, Chars("x") >>),
      JoinLines(<< Chars("User: hi"), Chars("Assistant: hello") >>) }

\* the texts convertBubbleHtmlToText returns for the bubbles as edited
EditedContents == { <<>>, Chars("x"), Chars("User: hi") }

RECURSIVE RebuildFrom(_, _, _)
\* updatedText += (segment.originalPrefix || '') + newContent + '\n\n'
RebuildFrom(segs, contents, i) ==
    IF i > Len(segs) THEN <<>>
    ELSE segs[i].originalPrefix \o contents[i] \o << "\n", "\n" >>
            \o RebuildFrom(segs, contents, i + 1)

\* the box shows a text; the bubbles are those of that text, or those of an
\* earlier text while the debounced render of the text is pending
PreviewInit ==
    /\ input \in PreviewInputs
    /\ \E shown \in PreviewInputs :
          /\ segments = parseSegments(shown)
          /\ renderTimeout = IF shown = input THEN "null" ELSE "armed"
    /\ pendingRenders = IF renderTimeout = "null" THEN 0 ELSE 1
    /\ PreviewIdle
    /\ TurnIdle
    /\ ConvIdle
    /\ CopilotIdle

\* updateSourceFromPreview(), contents being the texts of the bubbles shown
UpdateSourceFromPreview(contents) ==
    /\ previewCalls < MaxPreviewCalls
    /\ previewCalls' = previewCalls + 1
    /\ IF Reentered(isUpdatingFromPreview)
       THEN UNCHANGED <<editorVars, isUpdatingFromPreview, releaseTimers>>
       ELSE IF Len(parseSegments(input)) # Len(contents)
            THEN /\ isUpdatingFromPreview' = FALSE
                 /\ segments' = parseSegments(input)
                 /\ renderTimeout' = "null"
                 /\ pendingRenders' = ClearPending(renderTimeout, pendingRenders)
                 /\ UNCHANGED <<input, releaseTimers>>
            ELSE /\ input' = JsTrim(RebuildFrom(parseSegments(input), contents, 1))
                 /\ isUpdatingFromPreview' = TRUE
                 /\ releaseTimers' = releaseTimers + 1
                 /\ UNCHANGED <<segments, renderTimeout, pendingRenders>>
    /\ UNCHANGED <<turnVars, convVars, copilotVars>>

\* the 100 ms timer of updateSourceFromPreview fires
ReleaseGuard ==
    /\ releaseTimers > 0
    /\ isUpdatingFromPreview' = FALSE
    /\ releaseTimers' = releaseTimers - 1
    /\ UNCHANGED <<editorVars, previewCalls, turnVars, convVars, copilotVars>>

PreviewNext ==
    \/ \E contents \in [1..Len(segments) -> EditedContents] :
          UpdateSourceFromPreview(contents)
    \/ ReleaseGuard
    \/ Process

PreviewSpec == PreviewInit /\ [][PreviewNext]_vars

\* the timers of the browser fire
PreviewFairSpec == PreviewSpec /\ WF_vars(ReleaseGuard)

\* the step is a call of updateSourceFromPreview
PreviewCallStep == previewCalls' = previewCalls + 1

\* a call made while the guard is set returns at once: the text of the box, the
\* bubbles and the guard are as they were, and no timer is armed
GuardedCallReturns ==
    (PreviewCallStep /\ isUpdatingFromPreview) =>
        /\ input' = input
        /\ segments' = segments
        /\ isUpdatingFromPreview'
        /\ releaseTimers' = releaseTimers

\* a call that finds the guard free sets it and arms the timer that frees it,
\* or, on the out-of-sync path, leaves it free and the text untouched
FreeCallSetsGuard ==
    (PreviewCallStep /\ ~isUpdatingFromPreview) =>
        IF Len(parseSegments(input)) # Len(segments)
        THEN ~isUpdatingFromPreview' /\ input' = input /\ releaseTimers' = releaseTimers
        ELSE isUpdatingFromPreview' /\ releaseTimers' = releaseTimers + 1

\* C27: the guard State.isUpdatingFromPreview is always eventually released:
\* a call of updateSourceFromPreview that sets it is followed by its return to
\* false (at once on the out-of-sync path, when the 100 ms timer fires
\* otherwise), and while it is set a further call returns without changing the
\* input text.
C27_GuardReleased ==
    /\ [](isUpdatingFromPreview => releaseTimers = 1)
    /\ [][GuardedCallReturns /\ FreeCallSetsGuard]_vars
    /\ (isUpdatingFromPreview ~> ~isUpdatingFromPreview)

\* the bubbles were written back, the guard was set and has been released
C27_Witness ==
    /\ ~isUpdatingFromPreview
    /\ releaseTimers = 0
    /\ previewCalls = MaxPreviewCalls
    /\ input \notin PreviewInputs

(***************************************************************************)
(* The Copilot transcript converter: the click handler of convertBtn.      *)
(***************************************************************************)
\* input.split(/\r?\n/): a carriage return before a newline goes with it
StripCR(line) ==
    IF Len(line) > 0 /\ line[Len(line)] = "\r" THEN SubSeq(line, 1, Len(line) - 1)
    ELSE line

CopilotLines(text) ==
    [k \in 1..Len(SplitLines(text)) |->
        IF k < Len(SplitLines(text)) THEN StripCR(SplitLines(text)[k])
        ELSE SplitLines(text)[k]]

\* the names nameRegex knows, each with its colon
SaidNames == { Chars("You said:"), Chars("Copilot said:") }

\* line.match(nameRegex), nameRegex = /^(You said|Copilot said):\s*(.*)$/i:
\* the name matched, or <<>>; '.' matches no carriage return
NameMatched(line) ==
    IF \E w \in SaidNames :
          /\ MatchAtCI(line, 1, w)
          /\ \A k \in SkipSpaces(line, Len(w) + 1)..Len(line) : line[k] # "\r"
    THEN CHOOSE w \in SaidNames : MatchAtCI(line, 1, w)
    ELSE <<>>

\* match[2]
TextMatched(line) ==
    SubSeq(line, SkipSpaces(line, Len(NameMatched(line)) + 1), Len(line))

\* a variant of NormalSpeaker: every name is the user's
NormalSpeakerYou(name) == "You"

\* /copilot/i.test(currentSpeaker) ? "Copilot" : "You"
NormalSpeaker(name) ==
    IF \E i \in 1..Len(name) : MatchAtCI(name, i, Chars("copilot"))
    THEN "Copilot" ELSE "You"

\* messages.push({ speaker: lastSpeaker, text: buffer.trim() }) if (lastSpeaker)
Flush(st) ==
    IF st.lastSpeaker # "null"
    THEN Append(st.messages, [speaker |-> st.lastSpeaker, text |-> JsTrim(st.buffer)])
    ELSE st.messages

\* one iteration of the loop over the lines
ConvertStep(st, line) ==
    IF ~HasContent(line) THEN st
    ELSE IF Len(NameMatched(line)) > 0
         THEN [messages    |-> Flush(st),
               buffer      |-> TextMatched(line),
               lastSpeaker |-> NormalSpeaker(NameMatched(line))]
         ELSE IF st.lastSpeaker # "null"
              THEN [st EXCEPT !.buffer =
                       st.buffer \o (IF Len(st.buffer) > 0 THEN << "\n" >> ELSE <<>>)
                                 \o line]
              ELSE [st EXCEPT !.lastSpeaker = "You", !.buffer = line]

RECURSIVE ConvertLines(_, _)
\* the loop after the first n lines
ConvertLines(lines, n) ==
    IF n = 0 THEN [messages |-> <<>>, buffer |-> <<>>, lastSpeaker |-> "null"]
    ELSE ConvertStep(ConvertLines(lines, n - 1), lines[n])

\* the messages the handler builds from the text
Convert(text) == Flush(ConvertLines(CopilotLines(text), Len(CopilotLines(text))))

\* the lines pasted: labels in both cases, a label with no text, a label after
\* a space (no label), a continuation line, blank lines
CopilotPalette ==
    { <<>>,
      Chars(" "),
      Chars("x"),
      Chars("You said: hi"),
      Chars("Copilot said: hello"),
      Chars("copilot SAID:"),
      Chars(" You said: y") }

CopilotInputs ==
    { JoinLines(ls) : ls \in UNION { [1..n -> CopilotPalette] : n \in 1..MaxLines } }

CopilotInit ==
    /\ EditorInit
    /\ TurnIdle
    /\ ConvIdle
    /\ conversationInput \in CopilotInputs
    /\ messages = NoMessages

\* the click on convertBtn with a text that is not blank (a blank text is
\* answered by an alert and changes nothing)
ConvertClick ==
    /\ messages = NoMessages
    /\ HasContent(conversationInput)
    /\ messages' = Convert(conversationInput)
    /\ UNCHANGED <<editorVars, previewVars, turnVars, convVars, conversationInput>>

CopilotNext == ConvertClick

CopilotSpec == CopilotInit /\ [][CopilotNext]_vars

\* the lines of the text that are not blank, in order
Spoken == SelectSeq(SplitLines(conversationInput), NonBlank)

\* the line is a label line: it starts with one of the two labels, in any case
SaidLine(line) ==
    MatchAtCI(line, 1, Chars("You said:")) \/ MatchAtCI(line, 1, Chars("Copilot said:"))

\* the spoken line k starts a message: the first one, and every label line
StartsMessage(k) == k = 1 \/ SaidLine(Spoken[k])

\* the number of the message the spoken line k belongs to
MessageOf(k) == Cardinality({j \in 1..k : StartsMessage(j)})

\* the speaker a spoken line names, "You" for a line with no label
SpeakerNamed(line) ==
    IF MatchAtCI(line, 1, Chars("Copilot said:")) THEN "Copilot" ELSE "You"

\* what a spoken line says: the line, less its label and the spaces after it
Said(line) ==
    IF MatchAtCI(line, 1, Chars("Copilot said:"))
    THEN SubSeq(line, SkipSpaces(line, 14), Len(line))
    ELSE IF MatchAtCI(line, 1, Chars("You said:"))
         THEN SubSeq(line, SkipSpaces(line, 10), Len(line))
         ELSE line

\* the spoken lines of message m, in order, as said
SaidIn(m) ==
    LET ks == {k \in 1..Len(Spoken) : MessageOf(k) = m}
        first == CHOOSE k \in ks : \A j \in ks : k <= j
    IN  [i \in 1..Cardinality(ks) |-> Said(Spoken[first + i - 1])]

\* the speaker of message m: the one its first line names
SpeakerOf(m) ==
    SpeakerNamed(Spoken[CHOOSE k \in 1..Len(Spoken) :
                            MessageOf(k) = m /\ StartsMessage(k)])

Converted == messages # NoMessages

\* C28: in the Copilot converter every non-blank input line ends up in exactly
\* one message, the messages are in input order, each "You said:" / "Copilot
\* said:" line starts a new message, every continuation line goes to the
\* speaker of the nearest label line before it, and the lines before the first
\* label go to "You": the messages are the groups of consecutive non-blank
\* lines that start at the label lines, each with the speaker of its first line
\* and, as text, its lines as said, joined by newlines and trimmed.
C28_LinesGrouped ==
    Converted =>
        /\ Len(messages) = MessageOf(Len(Spoken))
        /\ \A m \in 1..Len(messages) :
              /\ messages[m].speaker = SpeakerOf(m)
              /\ messages[m].text = JsTrim(JoinLines(SaidIn(m)))

\* lines before the first label, a label with no text and its continuation,
\* and a label in capitals
C28_Witness ==
    /\ Converted
    /\ Len(messages) = 2
    /\ Len(Spoken) = 3
    /\ messages[1] = [speaker |-> "You", text |-> Chars("x")]
    /\ messages[2] = [speaker |-> "Copilot", text |-> Chars("You said: y")]

====
